---- MODULE Spec2Model ----
(***************************************************************************)
(* State-machine model of src/bot.py: the VC text archiver (capture,       *)
(* dedup, deletion-triggered export, purge) with its per-guild settings.   *)
(*                                                                         *)
(* Conventions                                                             *)
(*  - Python None is written 0 (log_channel_id, a channel's category id);  *)
(*    every real id is positive, and the code tests both with              *)
(*    truthiness / "is None" only.                                         *)
(*  - A text (str/bytes) is a sequence of tokens; TokBytes gives each      *)
(*    token's UTF-8 length, so len(raw) is the sum over the tokens and a   *)
(*    slice raw[lo:hi] is written as the byte interval <<lo, hi>>.         *)
(*  - A record carries the dedup key fields and author_name (a field that  *)
(*    is not part of the key); author_id and attachments are rendered as   *)
(*    fixed tokens (messages without attachments).                         *)
(*  - A room's parent category is read from the channel object when an   *)
(*    event arrives (a room can be moved between categories), so it is an  *)
(*    input of each handler; 0 is "no category".                           *)
(*  - A file is [st |-> "absent" | "ok" | "corrupt", data |-> ...]: a      *)
(*    failed write leaves the file as it was (open failed) or truncated /  *)
(*    half written (not decodable).                                        *)
(***************************************************************************)
EXTENDS Integers, Sequences, FiniteSets, TLC

\* ------------------------------------------------------------- bounds
MaxEvents == 2       \* capture events that append a record, per run
MaxAdmin == 2        \* admin commands per run
MaxFaults == 1       \* disk faults (failed read or write) per run
BigBytes == 7499955  \* UTF-8 length of the long message body "big"
MaxTicks == 3        \* iterations of weekly_backup_task per run
MaxLatency == 1      \* seconds between an iteration's due time and its clock read

\* --------------------------------------------------- program constants
MAX == 7500000           \* send_chunked_logs: MAX = 7_500_000
DefaultMaxMessages == 5000   \* DEFAULT_SETTINGS["max_messages_per_channel"]
RangeMin == 100          \* set_max: app_commands.Range[int, 100, 200000]
RangeMax == 200000
Interval == 600           \* @tasks.loop(minutes=10.0), in seconds
BackupWeekday == 0        \* now.weekday() == 0: Monday
BackupHour == 4           \* now.hour == 4
WindowMinutes == 10       \* now.minute < 10

\* ---------------------------------------------------------- the world
\* Guild 1 holds the rooms whose events are followed; guild 2 is a second
\* community with one text channel.
Guilds == {1, 2}
Categories == {1, 2}
\* what channel.category can be when an event arrives: no category (0),
\* or category 1
Parents == {0, 1}
\* channel 1: a voice room of guild 1; channel 2: the text channel of
\* guild 1; channel 3: the text channel of guild 2.
Channels == {1, 2, 3}
ChannelType(c) == IF c = 1 THEN "voice" ELSE "text"
ChannelGuild(c) == IF c = 3 THEN 2 ELSE 1
TextChannels == {c \in Channels : ChannelType(c) = "text"}

\* message 1: human, room 1, long body; message 2: bot-authored, room 1;
\* message 3: human, text channel 2.
Messages == {1, 2, 3}
MsgChannel(m) == IF m = 3 THEN 2 ELSE 1
MsgAuthorBot(m) == m = 2
MsgContent(m) == IF m = 1 THEN <<"big">> ELSE <<"hi">>
MsgCreatedAt(m) == m
\* the display name authors carry while events are followed ("yy" is a
\* second name, found in stored logs), and the instant an edit (edited_at)
\* or a deletion (now) carries
EventNames == {"x"}
Instants == {11}

\* ------------------------------------------------------------- texts
TokBytes(t) ==
    CASE t = "[" -> 1
      [] t = "YYYY-mm-dd HH:MM:SS" -> 19
      [] t = "] " -> 2
      [] t = "(" -> 1
      [] t = "author_id" -> 18
      [] t = "): " -> 3
      [] t = "x" -> 1
      [] t = "yy" -> 2
      [] t = "hi" -> 2
      [] t = "big" -> BigBytes
      [] t = "(edit-marker) " -> 12
      [] t = "(deleted-sentinel)" -> 47
      [] t = "  " -> 2
      [] t = " " -> 1
      [] t = "(edited)" -> 8
      [] t = "(deleted)" -> 9
      [] t = "\n" -> 1
      [] OTHER -> 1

RECURSIVE ByteLen(_)
ByteLen(text) ==
    IF text = <<>> THEN 0
    ELSE IF Len(text) = 1 THEN TokBytes(text[1])
    ELSE LET h == Len(text) \div 2 IN
         ByteLen(SubSeq(text, 1, h)) + ByteLen(SubSeq(text, h + 1, Len(text)))

\* ------------------------------------------------------------ records
\* faulty variant: records identified by their message alone
KeyByMessageId(r) == <<r.message_id>>

Key(r) == <<r.message_id, r.ts, r.content, r.edited, r.deleted>>

\* on_message's rec
CreateRecord(m, name) ==
    [message_id |-> m, ts |-> MsgCreatedAt(m), content |-> MsgContent(m),
     edited |-> FALSE, deleted |-> FALSE, author_name |-> name]

\* on_message_edit's rec
EditRecord(m, t, name) ==
    [message_id |-> m, ts |-> t, content |-> <<"(edit-marker) ">> \o MsgContent(m),
     edited |-> TRUE, deleted |-> FALSE, author_name |-> name]

\* on_message_delete's rec
DeleteRecord(m, t, name) ==
    [message_id |-> m, ts |-> t, content |-> <<"(deleted-sentinel)">>,
     edited |-> FALSE, deleted |-> TRUE, author_name |-> name]

\* ------------------------------------------------------- pure helpers
\* faulty variant: a record is dropped only when it repeats the record
\* appended last
DedupAdjacent(st, r) ==
    IF st.out # <<>> /\ Key(st.out[Len(st.out)]) = Key(r)
    THEN [st EXCEPT !.i = @ + 1]
    ELSE [i |-> st.i + 1, seen |-> st.seen \cup {Key(r)}, out |-> Append(st.out, r)]

\* one turn of "for r in records" in dedup; st holds the number of turns
\* taken, seen and out
DedupStep(st, r) ==
    IF Key(r) \in st.seen
    THEN [st EXCEPT !.i = @ + 1]
    ELSE [i |-> st.i + 1, seen |-> st.seen \cup {Key(r)}, out |-> Append(st.out, r)]

\* the turns from st on up to record number hi (taken in two runs when
\* more than one turn is left)
RECURSIVE DedupLoop(_, _, _)
DedupLoop(records, hi, st) ==
    IF st.i >= hi THEN st
    ELSE IF st.i + 1 = hi THEN DedupStep(st, records[hi])
    ELSE DedupLoop(records, hi, DedupLoop(records, (st.i + hi) \div 2, st))

dedup(records) == DedupLoop(records, Len(records), [i |-> 0, seen |-> {}, out |-> <<>>]).out

\* faulty variant: what the file held is used although the read raised
ReadStale(file, readOk) == file.data

\* json.load of a room file: the stored array, or [] when the file is
\* missing, cannot be opened (readOk = FALSE) or is not decodable.
ReadArray(file, readOk) ==
    IF file.st = "ok" /\ readOk THEN file.data ELSE <<>>

\* faulty variant: the buffer ahead of the file
MemoryFirst(diskRecords, mem) == mem \o diskRecords

\* disk + mem
MergeOrder(diskRecords, mem) == diskRecords \o mem

\* faulty variant: the file is not read
BufferOnly(buffer, files, c, readOk) == dedup(IF c \in DOMAIN buffer THEN buffer[c] ELSE <<>>)

\* faulty variant: the file alone is read
DiskOnly(buffer, files, c, readOk) == dedup(ReadArray(files[c], readOk))

load_channel_records(buffer, files, c, readOk) ==
    LET mem == IF c \in DOMAIN buffer THEN buffer[c] ELSE <<>>
        diskRecords == ReadArray(files[c], readOk)
    IN dedup(MergeOrder(diskRecords, mem))

\* faulty variant: all_records[:max_keep]
KeepOldest(records, max_keep) ==
    IF Len(records) > max_keep THEN SubSeq(records, 1, max_keep) ELSE records

\* all_records[-max_keep:] when len(all_records) > max_keep
KeepLast(records, max_keep) ==
    IF Len(records) > max_keep
    THEN SubSeq(records, Len(records) - max_keep + 1, Len(records))
    ELSE records

AbsentFile == [st |-> "absent", data |-> <<>>]

\* faulty variant: the file is left in place
KeepFile(files, c) == files

\* os.remove is taken to succeed on a file that exists
remove_channel_disk(files, c) ==
    IF files[c].st # "absent" THEN [files EXCEPT ![c] = AbsentFile] ELSE files

\* faulty variant: no check of the channel type
AnyChannelType(c) == TRUE

is_voice_like(c) == ChannelType(c) \in {"voice", "stage_voice"}

is_voice_message(m) == ChannelType(MsgChannel(m)) \in {"voice", "stage_voice"}

fmt_record(rec) ==
    LET flags == (IF rec.edited THEN <<"(edited)">> ELSE <<>>)
                 \o (IF rec.edited /\ rec.deleted THEN <<" ">> ELSE <<>>)
                 \o (IF rec.deleted THEN <<"(deleted)">> ELSE <<>>)
        base == <<"[", "YYYY-mm-dd HH:MM:SS", "] ", rec.author_name, "(", "author_id", "): ">>
                \o rec.content
    IN IF flags # <<>> THEN base \o <<"  ">> \o flags ELSE base

RECURSIVE build_txt(_)
build_txt(parts) ==
    IF parts = <<>> THEN <<>>
    ELSE IF Len(parts) = 1 THEN fmt_record(parts[1])
    ELSE LET h == Len(parts) \div 2 IN
         build_txt(SubSeq(parts, 1, h)) \o <<"\n">> \o build_txt(SubSeq(parts, h + 1, Len(parts)))

\* math.ceil(n / d) for n >= 0, d > 0
Ceil(n, d) == (n + d - 1) \div d

Max2(a, b) == IF a >= b THEN a ELSE b
Min2(a, b) == IF a <= b THEN a ELSE b

\* faulty variant: len(raw) // MAX + 1
ExtraChunk(rawLen) == rawLen \div MAX + 1

\* faulty variant: len(raw) // MAX
FloorChunks(rawLen) == IF rawLen > 0 THEN Max2(1, rawLen \div MAX) ELSE 1

\* chunks = max(1, math.ceil(len(raw) / MAX)) if raw else 1
NumChunks(rawLen) == IF rawLen > 0 THEN Max2(1, Ceil(rawLen, MAX)) ELSE 1

\* start = i * MAX; end = min((i + 1) * MAX, len(raw)); raw[start:end]
ChunkStart(i) == i * MAX
ChunkEnd(i, rawLen) == Min2((i + 1) * MAX, rawLen)

\* -------------------------------------------------------------- state
VARIABLES
    guild_settings,   \* guild id -> conf; category_whitelist holds a list id
    lists,            \* list id -> the list object's contents (0: DEFAULT_SETTINGS's list)
    settings_file,    \* data_vc_text/settings.json
    vc_text_buffer,   \* channel id -> records (only channels with a key)
    disk,             \* channel id -> data_vc_text/<channel id>.json
    pc,               \* channel id -> where on_guild_channel_delete stands
    all_records,      \* channel id -> the handler's local all_records
    chunk_i,          \* channel id -> the loop index i of send_chunked_logs
    sent,             \* channel id -> what the handler's dest.send calls emitted
    outcome,          \* channel id -> how the handler ended
    loaded,           \* history: what load_channel_records returned to the handler
    captured,         \* history: records captured for the room since its last purge
    filtered,         \* history: the category check has dropped a message event
    events, admin, faults,   \* budgets used
    restarted,        \* history: the process has been restarted
    backup_ids,       \* DEFAULT_MESSAGE_CHANNEL_IDS, split at the commas
    clock,            \* the JST wall clock when last read, in seconds from a Monday 00:00:00
    next_iteration,   \* the time the loop of weekly_backup_task is due next
    ticks,            \* iterations of weekly_backup_task so far
    fired,            \* history: iterations that found the clock inside the window
    snapshots,        \* the snapshot directories written, in order
    summaries         \* <<guild, stamp>> of the snapshots send_snapshot_summary has sent

vars == <<guild_settings, lists, settings_file, vc_text_buffer, disk, pc, all_records,
          chunk_i, sent, outcome, loaded, captured, filtered, events, admin, faults, restarted,
          backup_ids, clock, next_iteration, ticks, fired, snapshots, summaries>>

confVars == <<guild_settings, lists, settings_file>>
schedVars == <<backup_ids, clock, next_iteration, ticks, fired, snapshots, summaries>>
logVars == <<vc_text_buffer, disk, captured>>
handlerVars == <<pc, all_records, chunk_i, sent, outcome, loaded>>

\* ----------------------------------------------------------- settings
DefaultListId == 0

DEFAULT_SETTINGS ==
    [log_channel_id |-> 0,
     max_messages_per_channel |-> DefaultMaxMessages,
     category_whitelist |-> DefaultListId]

\* what json.dump(guild_settings) writes: every conf by value
SettingsJson(gs, ls) ==
    [g \in DOMAIN gs |->
        [log_channel_id |-> gs[g].log_channel_id,
         max_messages_per_channel |-> gs[g].max_messages_per_channel,
         category_whitelist |-> ls[gs[g].category_whitelist]]]

NoSettings == [g \in {} |-> DEFAULT_SETTINGS]

\* save_settings: w is the outcome of the write
save_settings(gs, ls, file, w) ==
    CASE w = "ok" -> [st |-> "ok", data |-> SettingsJson(gs, ls)]
      [] w = "kept" -> file
      [] OTHER -> [st |-> "corrupt", data |-> NoSettings]

\* load_settings: every loaded conf owns the list that json.load built for it
LoadedSettings(file) ==
    IF file.st = "ok"
    THEN [g \in DOMAIN file.data |->
            [log_channel_id |-> file.data[g].log_channel_id,
             max_messages_per_channel |-> file.data[g].max_messages_per_channel,
             category_whitelist |-> g]]
    ELSE NoSettings

LoadedLists(file) ==
    [l \in {DefaultListId} \cup Guilds |->
        IF file.st = "ok" /\ l \in DOMAIN file.data
        THEN file.data[l].category_whitelist ELSE <<>>]

\* guild_conf: the settings after the call (a missing conf is created as
\* DEFAULT_SETTINGS.copy(), a shallow copy that shares the default list)
guild_conf(gs, g) ==
    IF g \in DOMAIN gs THEN gs
    ELSE [k \in DOMAIN gs \cup {g} |-> IF k = g THEN DEFAULT_SETTINGS ELSE gs[k]]

Elems(seq) == {seq[i] : i \in 1..Len(seq)}

\* faulty variant: a channel without a category always passes
UncategorisedPasses(wl, parent) ==
    IF wl = <<>> THEN TRUE
    ELSE IF parent = 0 THEN TRUE
    ELSE parent \in Elems(wl)

\* in_target_categories, given the conf's whitelist wl and the channel's
\* parent category
in_target_categories(wl, parent) ==
    IF wl = <<>> THEN TRUE
    ELSE IF parent = 0 THEN FALSE
    ELSE parent \in Elems(wl)

\* the whitelist guild g's conf holds after guild_conf(g)
Whitelist(gs, ls, g) == ls[guild_conf(gs, g)[g].category_whitelist]

\* --------------------------------------------------------- disk faults
WriteOutcomes == {"ok", "kept", "corrupt"}
Cost(w) == IF w = "ok" THEN 0 ELSE 1
ReadCost(file, readOk) == IF readOk THEN 0 ELSE 1
\* a read can only fail on a file that is there and decodable (otherwise
\* the result is [] either way)
ReadChoices(file) == IF file.st = "ok" THEN BOOLEAN ELSE {TRUE}

\* guild_conf(g) as a step: creates and saves the conf when it is missing
TouchConf(g, w) ==
    /\ guild_settings' = guild_conf(guild_settings, g)
    /\ lists' = lists
    /\ IF g \in DOMAIN guild_settings
       THEN w = "ok" /\ settings_file' = settings_file
       ELSE settings_file' = save_settings(guild_settings', lists', settings_file, w)

\* --------------------------------------------------------- log store
append_message_to_disk(files, c, record, readOk, w) ==
    LET data == ReadArray(files[c], readOk) IN
    CASE w = "ok" -> [files EXCEPT ![c] = [st |-> "ok", data |-> Append(data, record)]]
      [] w = "kept" -> files
      [] OTHER -> [files EXCEPT ![c] = [st |-> "corrupt", data |-> <<>>]]

\* vc_text_buffer.setdefault(c, []).append(rec)
BufferAppend(buffer, c, rec) ==
    [k \in DOMAIN buffer \cup {c} |->
        IF k = c THEN Append(IF c \in DOMAIN buffer THEN buffer[c] ELSE <<>>, rec)
        ELSE buffer[k]]

\* vc_text_buffer.pop(c, None)
BufferPop(buffer, c) == [k \in DOMAIN buffer \ {c} |-> buffer[k]]

\* a room still delivers message events until its destroy handler has ended
Delivers(c) == pc[c] \notin {"done", "aborted"}

\* the tail shared by on_message, on_message_edit and on_message_delete:
\* the category check, then the dual write
Capture(c, parent, rec, s, readOk, w) ==
    /\ TouchConf(ChannelGuild(c), s)
    /\ IF in_target_categories(Whitelist(guild_settings, lists, ChannelGuild(c)), parent)
       THEN /\ events < MaxEvents
            /\ readOk \in ReadChoices(disk[c])
            /\ faults + Cost(s) + ReadCost(disk[c], readOk) + Cost(w) <= MaxFaults
            /\ vc_text_buffer' = BufferAppend(vc_text_buffer, c, rec)
            /\ disk' = append_message_to_disk(disk, c, rec, readOk, w)
            /\ captured' = [captured EXCEPT ![c] = Append(@, rec)]
            /\ events' = events + 1
            /\ faults' = faults + Cost(s) + ReadCost(disk[c], readOk) + Cost(w)
            /\ filtered' = filtered
       ELSE /\ readOk /\ w = "ok"
            /\ faults + Cost(s) <= MaxFaults
            /\ faults' = faults + Cost(s)
            /\ filtered' = TRUE
            /\ UNCHANGED <<logVars, events>>
    /\ UNCHANGED <<handlerVars, admin, restarted, schedVars>>

on_message(m, parent, name, s, readOk, w) ==
    /\ Delivers(MsgChannel(m))
    /\ \/ /\ MsgAuthorBot(m)
          /\ parent = 0 /\ s = "ok" /\ readOk /\ w = "ok"
          /\ UNCHANGED vars
       \/ /\ ~MsgAuthorBot(m)
          /\ ~is_voice_message(m)
          /\ parent = 0 /\ s = "ok" /\ readOk /\ w = "ok"
          /\ UNCHANGED vars
       \/ /\ ~MsgAuthorBot(m)
          /\ is_voice_message(m)
          /\ Capture(MsgChannel(m), parent, CreateRecord(m, name), s, readOk, w)

on_message_edit(m, parent, t, name, s, readOk, w) ==
    /\ Delivers(MsgChannel(m))
    /\ \/ /\ ~is_voice_message(m)
          /\ parent = 0 /\ s = "ok" /\ readOk /\ w = "ok"
          /\ UNCHANGED vars
       \/ /\ is_voice_message(m)
          /\ Capture(MsgChannel(m), parent, EditRecord(m, t, name), s, readOk, w)

on_message_delete(m, parent, t, name, s, readOk, w) ==
    /\ Delivers(MsgChannel(m))
    /\ \/ /\ ~is_voice_message(m)
          /\ parent = 0 /\ s = "ok" /\ readOk /\ w = "ok"
          /\ UNCHANGED vars
       \/ /\ is_voice_message(m)
          /\ Capture(MsgChannel(m), parent, DeleteRecord(m, t, name), s, readOk, w)

\* ------------------------------------------- on_guild_channel_delete
NoLoad == [records |-> <<>>, max_keep |-> 0]

\* faulty variant: the room's entry is reset to an empty list, not popped
ResetBuffer(buffer, c) == [k \in DOMAIN buffer \cup {c} |-> IF k = c THEN <<>> ELSE buffer[k]]

\* the finally block: vc_text_buffer.pop(channel.id, None); remove_channel_disk
PurgedBuffer(buffer, c) == BufferPop(buffer, c)
PurgedDisk(files, c) == remove_channel_disk(files, c)

Finish(c, how) ==
    /\ pc' = [pc EXCEPT ![c] = "done"]
    /\ outcome' = [outcome EXCEPT ![c] = how]
    /\ all_records' = [all_records EXCEPT ![c] = <<>>]
    /\ chunk_i' = [chunk_i EXCEPT ![c] = 0]
    /\ loaded' = [loaded EXCEPT ![c] = NoLoad]

Purge(c) ==
    /\ vc_text_buffer' = PurgedBuffer(vc_text_buffer, c)
    /\ disk' = PurgedDisk(disk, c)
    /\ captured' = [captured EXCEPT ![c] = <<>>]

\* the guild's text channel (what set_log_channel can be given)
GuildTextChannel(g) == g + 1
\* the destination still exists on the platform
DestAlive(c) == pc[GuildTextChannel(ChannelGuild(c))] = "idle"

\* faulty variant: the destination is never taken as unset
NeverUnset(dest_channel_id) == FALSE

\* send_chunked_logs: if not dest_channel_id
DestUnset(dest_channel_id) == dest_channel_id = 0

RawLen(records) == ByteLen(build_txt(records))

Header(records) == [kind |-> "header", n |-> Len(records), part |-> 0, of |-> 0, lo |-> 0, hi |-> 0]
Notice == [kind |-> "notice", n |-> 0, part |-> 0, of |-> 0, lo |-> 0, hi |-> 0]
\* faulty variant: filename and part number taken from i, not i + 1
AttachmentFromZero(i, chunks, rawLen) ==
    [kind |-> "file", n |-> 0, part |-> i, of |-> chunks,
     lo |-> ChunkStart(i), hi |-> ChunkEnd(i, rawLen)]

Attachment(i, chunks, rawLen) ==
    [kind |-> "file", n |-> 0, part |-> i + 1, of |-> chunks,
     lo |-> ChunkStart(i), hi |-> ChunkEnd(i, rawLen)]

\* The room-destroyed event arrives: the handler runs to its first await.
\* parent: channel.category when the event arrives; cached: guild.get_channel
\* finds the destination in the cache.
DeleteStart(c, parent, s, readOk, cached) ==
    /\ pc[c] = "idle"
    /\ UNCHANGED <<filtered, events, admin, restarted, schedVars>>
    /\ IF ~is_voice_like(c)
       THEN /\ parent = 0 /\ s = "ok" /\ readOk /\ ~cached
            /\ Finish(c, "ignored")
            /\ UNCHANGED <<confVars, logVars, sent, faults>>
       ELSE
       /\ TouchConf(ChannelGuild(c), s)
       /\ IF ~in_target_categories(Whitelist(guild_settings, lists, ChannelGuild(c)), parent)
          THEN /\ readOk /\ ~cached
               /\ faults + Cost(s) <= MaxFaults
               /\ faults' = faults + Cost(s)
               /\ Finish(c, "ignored")
               /\ UNCHANGED <<logVars, sent>>
          ELSE
          LET conf == guild_conf(guild_settings, ChannelGuild(c))[ChannelGuild(c)]
              merged == load_channel_records(vc_text_buffer, disk, c, readOk)
              kept == KeepLast(merged, conf.max_messages_per_channel)
          IN
          /\ readOk \in ReadChoices(disk[c])
          /\ faults + Cost(s) + ReadCost(disk[c], readOk) <= MaxFaults
          /\ faults' = faults + Cost(s) + ReadCost(disk[c], readOk)
          /\ sent' = sent
          /\ IF DestUnset(conf.log_channel_id)
             THEN /\ ~cached
                  /\ Finish(c, "unset")
                  /\ Purge(c)
             ELSE /\ cached => DestAlive(c)
                  /\ pc' = [pc EXCEPT ![c] = IF cached THEN "header" ELSE "fetch"]
                  /\ all_records' = [all_records EXCEPT ![c] = IF cached THEN dedup(kept) ELSE kept]
                  /\ loaded' = [loaded EXCEPT ![c] =
                                  [records |-> merged, max_keep |-> conf.max_messages_per_channel]]
                  /\ UNCHANGED <<chunk_i, outcome, logVars>>

\* await guild.fetch_channel(dest_channel_id) returns or raises
FetchDone(c, ok) ==
    /\ pc[c] = "fetch"
    /\ ok => DestAlive(c)
    /\ IF ok
       THEN /\ pc' = [pc EXCEPT ![c] = "header"]
            /\ all_records' = [all_records EXCEPT ![c] = dedup(@)]
            /\ UNCHANGED <<chunk_i, outcome, loaded, logVars>>
       ELSE /\ Finish(c, "unresolved")
            /\ Purge(c)
    /\ UNCHANGED <<confVars, sent, filtered, events, admin, faults, restarted, schedVars>>

\* await dest.send(header) returns or raises
HeaderSent(c, ok) ==
    /\ pc[c] = "header"
    /\ ok => DestAlive(c)
    /\ IF ok
       THEN /\ sent' = [sent EXCEPT ![c] = Append(@, Header(all_records[c]))]
            /\ pc' = [pc EXCEPT ![c] = IF RawLen(all_records[c]) = 0 THEN "notice" ELSE "chunk"]
            /\ UNCHANGED <<all_records, chunk_i, outcome, loaded, logVars>>
       ELSE /\ sent' = sent
            /\ Finish(c, "failed")
            /\ Purge(c)
    /\ UNCHANGED <<confVars, filtered, events, admin, faults, restarted, schedVars>>

\* if not raw: await dest.send("(no messages)"); return
NoticeSent(c, ok) ==
    /\ pc[c] = "notice"
    /\ ok => DestAlive(c)
    /\ sent' = IF ok THEN [sent EXCEPT ![c] = Append(@, Notice)] ELSE sent
    /\ Finish(c, IF ok THEN "sent" ELSE "failed")
    /\ Purge(c)
    /\ UNCHANGED <<confVars, filtered, events, admin, faults, restarted, schedVars>>

\* one turn of "for i in range(chunks)": await dest.send(file=...) returns or raises
ChunkSent(c, ok) ==
    LET rawLen == RawLen(all_records[c])
        chunks == NumChunks(rawLen)
        i == chunk_i[c]
    IN
    /\ pc[c] = "chunk"
    /\ ok => DestAlive(c)
    /\ UNCHANGED <<confVars, filtered, events, admin, faults, restarted, schedVars>>
    /\ IF ~ok
       THEN /\ sent' = sent
            /\ Finish(c, "failed")
            /\ Purge(c)
       ELSE /\ sent' = [sent EXCEPT ![c] = Append(@, Attachment(i, chunks, rawLen))]
            /\ IF i + 1 < chunks
               THEN /\ chunk_i' = [chunk_i EXCEPT ![c] = i + 1]
                    /\ UNCHANGED <<pc, all_records, outcome, loaded, logVars>>
               ELSE /\ Finish(c, "sent")
                    /\ Purge(c)

\* ------------------------------------------------------ admin commands
\* settings.json after the save guild_conf makes when it creates the conf
FileAfterConf(g, s1) ==
    IF g \in DOMAIN guild_settings THEN settings_file
    ELSE save_settings(guild_conf(guild_settings, g), lists, settings_file, s1)

\* the frame of every GuildConfGroup command that ends with save_settings()
AdminFrame(g, s1, s2) ==
    /\ admin < MaxAdmin
    /\ g \in DOMAIN guild_settings => s1 = "ok"
    /\ faults + Cost(s1) + Cost(s2) <= MaxFaults
    /\ faults' = faults + Cost(s1) + Cost(s2)
    /\ admin' = admin + 1
    /\ UNCHANGED <<logVars, handlerVars, filtered, events, restarted, schedVars>>

set_log_channel(g, channel, s1, s2) ==
    /\ AdminFrame(g, s1, s2)
    /\ channel \in TextChannels /\ ChannelGuild(channel) = g
    /\ guild_settings' = [guild_conf(guild_settings, g) EXCEPT ![g].log_channel_id = channel]
    /\ lists' = lists
    /\ settings_file' = save_settings(guild_settings', lists', FileAfterConf(g, s1), s2)

\* faulty variant: only the upper end of the range is checked
NoLowerBound(count) == count <= RangeMax

\* app_commands.Range[int, 100, 200000]: the callback only runs for a count in range
InRange(count) == RangeMin <= count /\ count <= RangeMax

set_max(g, count, s1, s2) ==
    \/ /\ ~InRange(count)
       /\ s1 = "ok" /\ s2 = "ok"
       /\ admin < MaxAdmin
       /\ admin' = admin + 1
       /\ UNCHANGED <<confVars, logVars, handlerVars, filtered, events, faults, restarted,
                      schedVars>>
    \/ /\ InRange(count)
       /\ AdminFrame(g, s1, s2)
       /\ guild_settings' = [guild_conf(guild_settings, g) EXCEPT ![g].max_messages_per_channel = count]
       /\ lists' = lists
       /\ settings_file' = save_settings(guild_settings', lists', FileAfterConf(g, s1), s2)

\* faulty variant: wl = conf["category_whitelist"], the conf's list object
\* even when it is the empty list shared with DEFAULT_SETTINGS
SharedTarget(ls, ref, g) == ref

\* wl = conf.get("category_whitelist") or []: the conf's own list object, or
\* a new list when that one is empty. A new list of guild g is kept under
\* list id g (no other conf ever refers to it).
WlTarget(ls, ref, g) == IF ls[ref] = <<>> THEN g ELSE ref

add_category(g, category, s1, s2) ==
    LET gs1 == guild_conf(guild_settings, g)
        ref == gs1[g].category_whitelist
        target == WlTarget(lists, ref, g)
    IN
    IF category \notin Elems(lists[ref])
    THEN /\ AdminFrame(g, s1, s2)
         /\ lists' = [lists EXCEPT ![target] = Append(lists[ref], category)]
         /\ guild_settings' = [gs1 EXCEPT ![g].category_whitelist = target]
         /\ settings_file' = save_settings(guild_settings', lists', FileAfterConf(g, s1), s2)
    ELSE /\ AdminFrame(g, s1, s2)
         /\ s2 = "ok"
         /\ guild_settings' = gs1
         /\ lists' = lists
         /\ settings_file' = FileAfterConf(g, s1)

RECURSIVE RemoveFirst(_, _)
RemoveFirst(seq, x) ==
    IF seq = <<>> THEN <<>>
    ELSE IF Head(seq) = x THEN Tail(seq)
    ELSE <<Head(seq)>> \o RemoveFirst(Tail(seq), x)

remove_category(g, category, s1, s2) ==
    LET gs1 == guild_conf(guild_settings, g)
        ref == gs1[g].category_whitelist
    IN
    IF category \in Elems(lists[ref])
    THEN /\ AdminFrame(g, s1, s2)
         /\ lists' = [lists EXCEPT ![ref] = RemoveFirst(lists[ref], category)]
         /\ guild_settings' = gs1
         /\ settings_file' = save_settings(guild_settings', lists', FileAfterConf(g, s1), s2)
    ELSE /\ AdminFrame(g, s1, s2)
         /\ s2 = "ok"
         /\ guild_settings' = gs1
         /\ lists' = lists
         /\ settings_file' = FileAfterConf(g, s1)

clear_categories(g, s1, s2) ==
    /\ AdminFrame(g, s1, s2)
    /\ lists' = [lists EXCEPT ![g] = <<>>]
    /\ guild_settings' = [guild_conf(guild_settings, g) EXCEPT ![g].category_whitelist = g]
    /\ settings_file' = save_settings(guild_settings', lists', FileAfterConf(g, s1), s2)

\* status / list_categories: read the conf (guild_conf may create it)
status(g, s1) ==
    /\ AdminFrame(g, s1, "ok")
    /\ guild_settings' = guild_conf(guild_settings, g)
    /\ lists' = lists
    /\ settings_file' = FileAfterConf(g, s1)

\* faulty variant: vc_text_buffer.clear() alone
PurgeBuffersOnly ==
    /\ admin < MaxAdmin
    /\ admin' = admin + 1
    /\ vc_text_buffer' = <<>>
    /\ UNCHANGED <<disk, captured, confVars, handlerVars, filtered, events, faults, restarted,
                   schedVars>>

\* purge_cache removes every *.json of DATA_DIR except settings.json
purge_cache ==
    /\ admin < MaxAdmin
    /\ admin' = admin + 1
    /\ vc_text_buffer' = <<>>
    /\ disk' = [c \in Channels |-> AbsentFile]
    /\ captured' = [c \in Channels |-> <<>>]
    /\ UNCHANGED <<confVars, handlerVars, filtered, events, faults, restarted, schedVars>>

\* ------------------------------------------- snapshots and schedule
\* bot.guilds, in order
BotGuilds == <<1, 2>>
\* guild.text_channels
GuildTextChannels(g) == {c \in TextChannels : ChannelGuild(c) = g}

\* one part of a comma-separated list: a string of digits, or anything else
Digits(n) == [isdigit |-> TRUE, int |-> n]
NotDigits == [isdigit |-> FALSE, int |-> 0]

\* parse_id_list: the parts that are digits, as integers, in order
parse_id_list(text) ==
    LET kept == SelectSeq(text, LAMBDA part : part.isdigit)
    IN [i \in 1..Len(kept) |-> kept[i].int]

\* ch.history(after=since_utc): the channel's messages newer than since
History(c, since) == {m \in Messages : MsgChannel(m) = c /\ MsgCreatedAt(m) > since}

\* faulty variant: a channel that does not resolve is recorded with count 0
DumpUnresolved(g, since, readable, st, cid) ==
    LET count == IF cid \in GuildTextChannels(g) /\ cid \in readable
                 THEN Cardinality(History(cid, since)) ELSE 0
    IN [dumped |-> [k \in DOMAIN st.dumped \cup {cid} |-> IF k = cid THEN count ELSE st.dumped[k]],
        files |-> st.files]

\* one turn of "for cid in channel_ids" in dump_messages_for_channels;
\* st.dumped: the dict returned, st.files: lines in messages-<cid>.jsonl.gz
DumpStep(g, since, readable, st, cid) ==
    IF cid \notin GuildTextChannels(g) THEN st
    ELSE IF cid \notin readable THEN st
    ELSE LET count == Cardinality(History(cid, since))
             before == IF cid \in DOMAIN st.files THEN st.files[cid] ELSE 0
         IN [dumped |-> [k \in DOMAIN st.dumped \cup {cid} |->
                           IF k = cid THEN count ELSE st.dumped[k]],
             files |-> IF count = 0 THEN st.files
                       ELSE [k \in DOMAIN st.files \cup {cid} |->
                               IF k = cid THEN before + count ELSE st.files[k]]]

RECURSIVE DumpLoop(_, _, _, _, _)
DumpLoop(g, since, readable, channel_ids, st) ==
    IF channel_ids = <<>> THEN st
    ELSE DumpLoop(g, since, readable, Tail(channel_ids),
                  DumpStep(g, since, readable, st, Head(channel_ids)))

dump_messages_for_channels(g, since, channel_ids, readable) ==
    DumpLoop(g, since, readable, channel_ids, [dumped |-> <<>>, files |-> <<>>])

\* create_snapshot: the directory written at time now (stamp: the second),
\* with the manifest's message_channels and message_counts
create_snapshot(g, message_channel_ids, now, readable) ==
    LET d == dump_messages_for_channels(g, now - 7 * 86400, message_channel_ids, readable)
    IN [guild |-> g, stamp |-> now,
        message_channels |-> message_channel_ids,
        message_counts |-> d.dumped,
        message_files |-> d.files]

\* now.weekday(), now.hour, now.minute
weekday(now) == (now \div 86400) % 7
hour(now) == (now % 86400) \div 3600
minute(now) == (now % 3600) \div 60

\* faulty variant: the minute is not looked at
WholeHour(now) == weekday(now) = BackupWeekday /\ hour(now) = BackupHour

\* if now.weekday() == 0 and now.hour == 4 and now.minute < 10
InWindow(now) == weekday(now) = BackupWeekday /\ hour(now) = BackupHour /\ minute(now) < WindowMinutes

SchedInit(start, ids) ==
    /\ backup_ids = ids
    /\ clock = start
    /\ next_iteration = start
    /\ ticks = 0
    /\ fired = 0
    /\ snapshots = <<>>
    /\ summaries = <<>>

\* faulty variant: no try/except inside the loop, the first exception ends it
ServedUntilFailure(failing, unsent) ==
    LET bad == {i \in 1..Len(BotGuilds) : BotGuilds[i] \in failing \cup unsent}
        last == IF bad = {} THEN Len(BotGuilds)
                ELSE CHOOSE i \in bad : \A j \in bad : i <= j
    IN SelectSeq(SubSeq(BotGuilds, 1, last), LAMBDA g : g \notin failing)

\* for guild in bot.guilds, each turn in its own try/except: the guilds
\* whose create_snapshot returns
Served(failing, unsent) == SelectSeq(BotGuilds, LAMBDA g : g \notin failing)

\* One iteration of the loop of weekly_backup_task. latency: how long after
\* the due time the body reads the clock; readable: the text channels the
\* bot may read; failing: the guilds whose create_snapshot raises; unsent:
\* the guilds whose send_snapshot_summary raises (both caught and logged).
weekly_backup_task(latency, readable, failing, unsent) ==
    LET now == next_iteration + latency
        served == Served(failing, unsent)
        reported == SelectSeq(served, LAMBDA g : g \notin unsent)
    IN
    /\ ticks < MaxTicks
    /\ now >= clock
    /\ clock' = now
    /\ next_iteration' = next_iteration + Interval
    /\ ticks' = ticks + 1
    /\ IF InWindow(now)
       THEN /\ fired' = fired + 1
            /\ snapshots' = snapshots \o
                  [i \in 1..Len(served) |->
                      create_snapshot(served[i], parse_id_list(backup_ids), now, readable)]
            /\ summaries' = summaries \o [i \in 1..Len(reported) |-> <<reported[i], now>>]
       ELSE /\ readable = {} /\ failing = {} /\ unsent = {}
            /\ UNCHANGED <<fired, snapshots, summaries>>
    /\ UNCHANGED <<backup_ids, confVars, logVars, handlerVars, filtered, events, admin,
                   faults, restarted>>

\* /backup now in guild g. channels: the command's text argument, split at
\* the commas (<<>>: omitted); elapsed: seconds since the clock was last
\* read; sendOk: send_snapshot_summary returns.
backup_now(g, channels, elapsed, readable, sendOk) ==
    LET now == clock + elapsed
        ch_ids == IF parse_id_list(channels) # <<>> THEN parse_id_list(channels)
                  ELSE parse_id_list(backup_ids)
    IN
    /\ admin < MaxAdmin
    /\ admin' = admin + 1
    /\ clock' = now
    /\ snapshots' = Append(snapshots, create_snapshot(g, ch_ids, now, readable))
    /\ summaries' = IF sendOk THEN Append(summaries, <<g, now>>) ELSE summaries
    /\ UNCHANGED <<backup_ids, next_iteration, ticks, fired, confVars, logVars, handlerVars,
                   filtered, events, faults, restarted>>

\* ------------------------------------------------------------ restart
InFlight(c) == pc[c] \in {"fetch", "header", "notice", "chunk"}

\* the process dies and starts again: on_ready runs load_settings; the
\* module-level vc_text_buffer is empty; handlers in flight are gone
Restart ==
    /\ restarted' = TRUE
    /\ next_iteration' = clock
    /\ UNCHANGED <<backup_ids, clock, ticks, fired, snapshots, summaries>>
    /\ guild_settings' = LoadedSettings(settings_file)
    /\ lists' = LoadedLists(settings_file)
    /\ vc_text_buffer' = <<>>
    /\ pc' = [c \in Channels |-> IF InFlight(c) THEN "aborted" ELSE pc[c]]
    /\ outcome' = [c \in Channels |-> IF InFlight(c) THEN "aborted" ELSE outcome[c]]
    /\ all_records' = [c \in Channels |-> <<>>]
    /\ chunk_i' = [c \in Channels |-> 0]
    /\ loaded' = [c \in Channels |-> NoLoad]
    /\ UNCHANGED <<settings_file, disk, sent, captured, filtered, events, admin, faults>>

\* ------------------------------------------------------ specification
Init ==
    /\ settings_file = [st |-> "absent", data |-> NoSettings]
    /\ guild_settings = LoadedSettings(settings_file)
    /\ lists = LoadedLists(settings_file)
    /\ vc_text_buffer = <<>>
    /\ disk = [c \in Channels |-> AbsentFile]
    /\ pc = [c \in Channels |-> "idle"]
    /\ all_records = [c \in Channels |-> <<>>]
    /\ chunk_i = [c \in Channels |-> 0]
    /\ sent = [c \in Channels |-> <<>>]
    /\ outcome = [c \in Channels |-> "pending"]
    /\ loaded = [c \in Channels |-> NoLoad]
    /\ captured = [c \in Channels |-> <<>>]
    /\ filtered = FALSE
    /\ events = 0 /\ admin = 0 /\ faults = 0 /\ restarted = FALSE
    /\ SchedInit(0, <<>>)

\* the guild whose rooms and commands the main specification follows
Followed == {1}
FollowedChannels == {c \in Channels : ChannelGuild(c) \in Followed}
\* the main specification follows runs without disk faults
SaveOutcomes == {"ok"}
LogWrites == {"ok"}
LogReads == {TRUE}

Next ==
    \/ \E m \in Messages, parent \in Parents, name \in EventNames,
          s \in SaveOutcomes, readOk \in LogReads, w \in LogWrites :
          on_message(m, parent, name, s, readOk, w)
    \/ \E m \in Messages, parent \in Parents, t \in Instants, name \in EventNames,
          s \in SaveOutcomes, readOk \in LogReads, w \in LogWrites :
          on_message_edit(m, parent, t, name, s, readOk, w)
    \/ \E m \in Messages, parent \in Parents, t \in Instants, name \in EventNames,
          s \in SaveOutcomes, readOk \in LogReads, w \in LogWrites :
          on_message_delete(m, parent, t, name, s, readOk, w)
    \/ \E c \in FollowedChannels, parent \in Parents, s \in SaveOutcomes,
          readOk \in LogReads, cached \in BOOLEAN :
          DeleteStart(c, parent, s, readOk, cached)
    \/ \E c \in FollowedChannels, ok \in BOOLEAN : FetchDone(c, ok)
    \/ \E c \in FollowedChannels, ok \in BOOLEAN : HeaderSent(c, ok)
    \/ \E c \in FollowedChannels, ok \in BOOLEAN : NoticeSent(c, ok)
    \/ \E c \in FollowedChannels, ok \in BOOLEAN : ChunkSent(c, ok)
    \/ \E g \in Followed, ch \in Channels, s1 \in SaveOutcomes, s2 \in SaveOutcomes :
          set_log_channel(g, ch, s1, s2)
    \/ \E g \in Followed, cat \in Categories, s1 \in SaveOutcomes, s2 \in SaveOutcomes :
          add_category(g, cat, s1, s2)
    \/ purge_cache
    \/ Restart

Spec == Init /\ [][Next]_vars

\* ------------------------------------ specifications from a stored state
\* settings.json of an earlier run: guild 1 has its destination set
StoredConf(max) ==
    [g \in {1} |->
        [log_channel_id |-> GuildTextChannel(1),
         max_messages_per_channel |-> max,
         category_whitelist |-> <<>>]]

\* the state after on_ready has loaded the settings, with room 1's file
\* holding D and its buffer holding M (hist: the captures they come from)
InitWith(max, D, M, hist) ==
    /\ settings_file = [st |-> "ok", data |-> StoredConf(max)]
    /\ guild_settings = LoadedSettings(settings_file)
    /\ lists = LoadedLists(settings_file)
    /\ vc_text_buffer = IF M = <<>> THEN <<>> ELSE [c \in {1} |-> M]
    /\ disk = [c \in Channels |->
                 IF c = 1 /\ D # <<>> THEN [st |-> "ok", data |-> D] ELSE AbsentFile]
    /\ pc = [c \in Channels |-> "idle"]
    /\ all_records = [c \in Channels |-> <<>>]
    /\ chunk_i = [c \in Channels |-> 0]
    /\ sent = [c \in Channels |-> <<>>]
    /\ outcome = [c \in Channels |-> "pending"]
    /\ loaded = [c \in Channels |-> NoLoad]
    /\ captured = [c \in Channels |-> IF c = 1 THEN hist ELSE <<>>]
    /\ filtered = FALSE
    /\ events = 0 /\ admin = 0 /\ faults = 0 /\ restarted = FALSE
    /\ SchedInit(0, <<>>)

\* the handler of room 1's destruction, step by step
Export ==
    \/ \E parent \in Parents, cached \in BOOLEAN : DeleteStart(1, parent, "ok", TRUE, cached)
    \/ \E ok \in BOOLEAN : FetchDone(1, ok)
    \/ \E ok \in BOOLEAN : HeaderSent(1, ok)
    \/ \E ok \in BOOLEAN : NoticeSent(1, ok)
    \/ \E ok \in BOOLEAN : ChunkSent(1, ok)

\* load_channel_records over every pair of a stored file and a buffer of
\* up to MaxStored records; two of the records share their key and differ
\* in author_name
MaxStored == 2
MergeRecords == {EditRecord(1, 11, "x"), EditRecord(1, 11, "yy"), DeleteRecord(1, 11, "x")}
StoredLogs == UNION {[1..n -> MergeRecords] : n \in 0..MaxStored}

InitMerge ==
    \E D \in StoredLogs, M \in StoredLogs : InitWith(DefaultMaxMessages, D, M, <<>>)

NextMerge == Export

SpecMerge == InitMerge /\ [][NextMerge]_vars

\* the retention cap at its real values: room 1's file holds a log of an
\* earlier run, one record short of the smallest cap up to one record over
OldRecord(i) ==
    [message_id |-> 100 + i, ts |-> 100 + i, content |-> <<"hi">>,
     edited |-> FALSE, deleted |-> FALSE, author_name |-> "x"]
OldLog(n) == [i \in 1..n |-> OldRecord(i)]
OldLens == (RangeMin - 1)..(RangeMin + 1)

InitCap ==
    \E max \in {RangeMin, DefaultMaxMessages}, n \in OldLens :
        InitWith(max, OldLog(n), <<>>, OldLog(n))

NextCap ==
    \/ \E m \in Messages, parent \in Parents, name \in EventNames :
          on_message(m, parent, name, "ok", TRUE, "ok")
    \/ \E m \in Messages, parent \in Parents, t \in Instants, name \in EventNames :
          on_message_edit(m, parent, t, name, "ok", TRUE, "ok")
    \/ \E m \in Messages, parent \in Parents, t \in Instants, name \in EventNames :
          on_message_delete(m, parent, t, name, "ok", TRUE, "ok")
    \/ \E parent \in Parents, cached \in BOOLEAN : DeleteStart(1, parent, "ok", TRUE, cached)
    \/ \E ok \in BOOLEAN : FetchDone(1, ok)
    \/ \E ok \in BOOLEAN : HeaderSent(1, ok)
    \/ \E ok \in BOOLEAN : ChunkSent(1, ok)

SpecCap == InitCap /\ [][NextCap]_vars

\* runs with disk faults on the room files: a read of a room file can
\* fail, a write can leave the file as it was or not decodable (MaxFaults
\* faults per run); no destination is set, so a destroyed room is purged
\* without an emission
NextFault ==
    \/ \E m \in Messages, parent \in Parents, name \in EventNames,
          readOk \in BOOLEAN, w \in WriteOutcomes :
          on_message(m, parent, name, "ok", readOk, w)
    \/ \E m \in Messages, parent \in Parents, t \in Instants, name \in EventNames,
          readOk \in BOOLEAN, w \in WriteOutcomes :
          on_message_edit(m, parent, t, name, "ok", readOk, w)
    \/ \E m \in Messages, parent \in Parents, t \in Instants, name \in EventNames,
          readOk \in BOOLEAN, w \in WriteOutcomes :
          on_message_delete(m, parent, t, name, "ok", readOk, w)
    \/ \E c \in FollowedChannels, parent \in Parents, readOk \in BOOLEAN, cached \in BOOLEAN :
          DeleteStart(c, parent, "ok", readOk, cached)
    \/ purge_cache
    \/ Restart

SpecFault == Init /\ [][NextFault]_vars

\* ============================================================ claims
\* What the claims speak of, written independently of the handlers.

\* a process that holds a log of 99..101 records in room 1's file and
\* buffer is restarted, captures further events and exports the room
InitRestart ==
    \E n \in OldLens : InitWith(RangeMin, OldLog(n), OldLog(n), OldLog(n))

NextRestart ==
    \/ \E m \in Messages, parent \in Parents, name \in EventNames :
          on_message(m, parent, name, "ok", TRUE, "ok")
    \/ \E m \in Messages, parent \in Parents, t \in Instants, name \in EventNames :
          on_message_edit(m, parent, t, name, "ok", TRUE, "ok")
    \/ \E parent \in Parents, cached \in BOOLEAN : DeleteStart(1, parent, "ok", TRUE, cached)
    \/ \E ok \in BOOLEAN : FetchDone(1, ok)
    \/ \E ok \in BOOLEAN : HeaderSent(1, ok)
    \/ \E ok \in BOOLEAN : ChunkSent(1, ok)
    \/ Restart

SpecRestart == InitRestart /\ [][NextRestart]_vars

\* the admin commands of both guilds, with failing saves of settings.json
\* and restarts; Counts: what set_max may be given
Counts == {0, RangeMin - 1, RangeMin, RangeMax, RangeMax + 1}

NextAdmin ==
    \/ \E g \in Guilds, count \in Counts, s1 \in WriteOutcomes, s2 \in WriteOutcomes :
          set_max(g, count, s1, s2)
    \/ \E g \in Guilds, ch \in Channels, s1 \in WriteOutcomes, s2 \in WriteOutcomes :
          set_log_channel(g, ch, s1, s2)
    \/ \E g \in Guilds, cat \in Categories, s1 \in WriteOutcomes, s2 \in WriteOutcomes :
          add_category(g, cat, s1, s2)
    \/ \E g \in Guilds, cat \in Categories, s1 \in WriteOutcomes, s2 \in WriteOutcomes :
          remove_category(g, cat, s1, s2)
    \/ \E g \in Guilds, s1 \in WriteOutcomes, s2 \in WriteOutcomes : clear_categories(g, s1, s2)
    \/ \E g \in Guilds, s1 \in WriteOutcomes : status(g, s1)
    \/ Restart

SpecAdmin == Init /\ [][NextAdmin]_vars

\* the loop of weekly_backup_task from its start by on_ready, for every
\* start time in Starts and every content of BACKUP_MESSAGE_CHANNEL_IDS
\* in IdTexts
WindowStart == BackupHour * 3600
Starts ==
    {WindowStart - Interval, WindowStart - Interval + 1, WindowStart - 300,
     WindowStart - 1, WindowStart, WindowStart + Interval - 1,
     6 * 86400 + WindowStart - 1, WindowStart + 3600 - 1, 7 * 86400 + WindowStart - 1}
IdTexts == {<<>>, <<Digits(2), NotDigits, Digits(3)>>, <<Digits(9), Digits(1), Digits(2)>>}
SnapshotFailures == {{}}

InitSched ==
    /\ settings_file = [st |-> "absent", data |-> NoSettings]
    /\ guild_settings = LoadedSettings(settings_file)
    /\ lists = LoadedLists(settings_file)
    /\ vc_text_buffer = <<>>
    /\ disk = [c \in Channels |-> AbsentFile]
    /\ pc = [c \in Channels |-> "idle"]
    /\ all_records = [c \in Channels |-> <<>>]
    /\ chunk_i = [c \in Channels |-> 0]
    /\ sent = [c \in Channels |-> <<>>]
    /\ outcome = [c \in Channels |-> "pending"]
    /\ loaded = [c \in Channels |-> NoLoad]
    /\ captured = [c \in Channels |-> <<>>]
    /\ filtered = FALSE
    /\ events = 0 /\ admin = 0 /\ faults = 0 /\ restarted = FALSE
    /\ \E start \in Starts, ids \in IdTexts : SchedInit(start, ids)

NextSched ==
    \E latency \in 0..MaxLatency, readable \in SUBSET TextChannels,
       failing \in SnapshotFailures, unsent \in SnapshotFailures :
        weekly_backup_task(latency, readable, failing, unsent)

SpecSched == InitSched /\ [][NextSched]_vars

\* the loop together with /backup now commands
InitBackup ==
    /\ InitSched
    /\ clock \in {WindowStart - 1, WindowStart}
    /\ backup_ids \in {<<>>, <<Digits(9), Digits(1), Digits(2)>>}

NextBackup ==
    \/ \E latency \in 0..MaxLatency : weekly_backup_task(latency, TextChannels, {}, {})
    \/ \E g \in Guilds, channels \in {<<>>, <<Digits(2)>>}, elapsed \in 0..MaxLatency,
          sendOk \in BOOLEAN :
          backup_now(g, channels, elapsed, TextChannels, sendOk)

SpecBackup == InitBackup /\ [][NextBackup]_vars

\* the same loop when create_snapshot or send_snapshot_summary raises for
\* any of the guilds
NextSchedFault ==
    \E latency \in 0..MaxLatency, readable \in SUBSET TextChannels,
       failing \in SUBSET Guilds, unsent \in SUBSET Guilds :
        weekly_backup_task(latency, readable, failing, unsent)

SpecSchedFault == InitSched /\ [][NextSchedFault]_vars

\* the identity tuple of a record (spec: sourceMessageId, timestamp,
\* content, edited, deleted)
IdentityTuple(r) == <<r.message_id, r.ts, r.content, r.edited, r.deleted>>

\* the positions of seq that hold the first occurrence of their identity tuple
FirstPositions(seq) ==
    {i \in 1..Len(seq) : \A j \in 1..(i - 1) : IdentityTuple(seq[j]) # IdentityTuple(seq[i])}

\* seq restricted to the positions P, order kept
Restrict(seq, P) ==
    [k \in 1..Cardinality(P) |-> seq[CHOOSE i \in P : Cardinality({j \in P : j <= i}) = k]]

\* seq with every record removed whose identity tuple occurred earlier
FirstWins(seq) == Restrict(seq, FirstPositions(seq))

Tuples(seq) == [i \in 1..Len(seq) |-> IdentityTuple(seq[i])]

MemList(c) == IF c \in DOMAIN vc_text_buffer THEN vc_text_buffer[c] ELSE <<>>
DiskList(c) == IF disk[c].st = "ok" THEN disk[c].data ELSE <<>>
LogAbsent(c) == c \notin DOMAIN vc_text_buffer /\ disk[c].st = "absent"
LogAbsentNext(c) == c \notin DOMAIN vc_text_buffer' /\ disk'[c].st = "absent"

\* the conf guild g has, or would be given on first access
ConfOf(g) == IF g \in DOMAIN guild_settings THEN guild_settings[g] ELSE DEFAULT_SETTINGS
WhitelistOf(g) == lists[ConfOf(g).category_whitelist]
\* the room is of the tracked type and passes the category filter
TrackedType(c) == ChannelType(c) = "voice" \/ ChannelType(c) = "stage_voice"
PassesFilter(g, parent) ==
    WhitelistOf(g) = <<>> \/ (parent # 0 /\ \E i \in 1..Len(WhitelistOf(g)) : WhitelistOf(g)[i] = parent)

\* C1: once on_guild_channel_delete has finished for a room (any
\* room-destroyed event, whatever captures and admin commands came
\* before), the room has no entry in vc_text_buffer and no file on disk.
C1_PurgeOnEveryDestroy ==
    \A c \in Channels : pc[c] = "done" => LogAbsent(c)

\* C2: after any sequence of captures on a room, each written to the
\* buffer and to the file, load_channel_records returns every distinct
\* identity tuple exactly once, in the order of first capture.
C2_MergedLogIsFirstCaptures ==
    \A c \in Channels :
        LET out == load_channel_records(vc_text_buffer, disk, c, TRUE) IN
        /\ Tuples(out) = Tuples(FirstWins(captured[c]))
        /\ \A i, j \in 1..Len(out) : i # j => IdentityTuple(out[i]) # IdentityTuple(out[j])

\* a record was captured twice (four stored copies) and is returned once
C2_Witness ==
    /\ Len(captured[1]) = 2
    /\ captured[1][1] = captured[1][2]
    /\ MemList(1) = captured[1] /\ DiskList(1) = captured[1]
    /\ Len(load_channel_records(vc_text_buffer, disk, 1, TRUE)) = 1

\* C3: load_channel_records(room) is the concatenation "disk records, then
\* buffer records" with every record removed whose identity tuple occurred
\* earlier, the earliest occurrence (author_name included) being the one
\* kept; the handler of the room's destruction works on that list.
C3_LoadIsFirstWinsOfDiskThenBuffer ==
    \A c \in Channels :
        /\ load_channel_records(vc_text_buffer, disk, c, TRUE)
              = FirstWins(DiskList(c) \o MemList(c))
        /\ InFlight(c) => loaded[c].records = FirstWins(DiskList(c) \o MemList(c))

\* the file and the buffer hold the same key under two author names, and
\* the handler has loaded the file's record alone
C3_Witness ==
    /\ DiskList(1) = <<EditRecord(1, 11, "x")>>
    /\ MemList(1) = <<EditRecord(1, 11, "yy"), DeleteRecord(1, 11, "x")>>
    /\ pc[1] = "header"
    /\ loaded[1].records = <<EditRecord(1, 11, "x"), DeleteRecord(1, 11, "x")>>

Smaller(a, b) == IF a <= b THEN a ELSE b

\* C4: with N records in the merged log and the community's cap at
\* max_keep, the records handed on for formatting are the trailing
\* min(N, max_keep) records of the merged log in order, never more than the
\* cap; the header counts no more either.
C4_ExportIsTrailingCap ==
    \A c \in Channels :
        LET merged == loaded[c].records
            N == Len(merged)
            cap == ConfOf(ChannelGuild(c)).max_messages_per_channel
            k == Smaller(N, cap)
        IN /\ InFlight(c) =>
                /\ Len(all_records[c]) = k
                /\ k <= cap
                /\ \A i \in 1..k : all_records[c][i] = merged[N - k + i]
           /\ \A i \in 1..Len(sent[c]) : sent[c][i].kind = "header" => sent[c][i].n <= cap

\* the merged log is longer than the cap of 100 and the chunks are being sent
C4_Witness ==
    /\ pc[1] = "chunk"
    /\ ConfOf(1).max_messages_per_channel = RangeMin
    /\ Len(loaded[1].records) = RangeMin + 3
    /\ Len(all_records[1]) = RangeMin
    /\ all_records[1][1] = loaded[1].records[4]

\* the attachments among the messages sent for a room, in emission order
Files(msgs) == SelectSeq(msgs, LAMBDA x : x.kind = "file")

\* raw[lo:hi] of a transcript of L bytes covers the byte positions from..to-1
SliceFrom(f, L) == Smaller(f.lo, L)
SliceTo(f, L) == IF Smaller(f.hi, L) >= Smaller(f.lo, L) THEN Smaller(f.hi, L) ELSE Smaller(f.lo, L)

\* the slices of files, concatenated from position pos on, are the bytes
\* pos..L-1 of the transcript
RECURSIVE ConcatIsRest(_, _, _)
ConcatIsRest(files, pos, L) ==
    IF files = <<>> THEN pos = L
    ELSE LET f == Head(files) IN
         IF SliceFrom(f, L) = SliceTo(f, L) THEN ConcatIsRest(Tail(files), pos, L)
         ELSE SliceFrom(f, L) = pos /\ ConcatIsRest(Tail(files), SliceTo(f, L), L)

\* C5: when the exporter returns normally for a non-empty transcript, the
\* attachments it emitted, concatenated in emission order, are the
\* transcript: no byte lost, none repeated, none out of place.
C5_ChunksReassemble ==
    [][\A c \in Channels :
          (pc[c] = "chunk" /\ pc'[c] = "done" /\ outcome'[c] = "sent")
          => /\ RawLen(all_records[c]) > 0
             /\ Files(sent'[c]) # <<>>
             /\ ConcatIsRest(Files(sent'[c]), 0, RawLen(all_records[c]))]_vars

\* a transcript of more than two chunks has been sent in three attachments
C5_Witness ==
    /\ outcome[1] = "sent"
    /\ Len(Files(sent[1])) = 3
    /\ Files(sent[1])[3].lo = 2 * MAX
    /\ Files(sent[1])[3].hi > 2 * MAX

\* the step is a create, edit or delete event of message m, as Next takes it
MessageEventStep(m, parent) ==
    \E name \in EventNames, t \in Instants, s \in SaveOutcomes, readOk \in LogReads, w \in LogWrites :
        \/ on_message(m, parent, name, s, readOk, w)
        \/ on_message_edit(m, parent, t, name, s, readOk, w)
        \/ on_message_delete(m, parent, t, name, s, readOk, w)

\* the step is the arrival of the room-destroyed event of room c, as Next takes it
DestroyStep(c, parent) ==
    \E s \in SaveOutcomes, readOk \in LogReads, cached \in BOOLEAN :
        DeleteStart(c, parent, s, readOk, cached)

\* C6: while a community's whitelist is non-empty, a create, edit or delete
\* event from a room whose parent category is not listed (or that has no
\* category) changes neither the room's buffer nor its file: a step that
\* changes a buffer or a file is no such event.
C6_FilteredEventsLeaveLogs ==
    [][\/ UNCHANGED <<vc_text_buffer, disk>>
       \/ \A m \in Messages, parent \in Parents :
             ~(/\ WhitelistOf(ChannelGuild(MsgChannel(m))) # <<>>
               /\ ~PassesFilter(ChannelGuild(MsgChannel(m)), parent)
               /\ MessageEventStep(m, parent))]_vars

\* one event was captured while the whitelist was empty, a later one was
\* dropped by the filter, and the log still holds the one record
C6_Witness ==
    /\ filtered
    /\ WhitelistOf(1) # <<>>
    /\ events = 1
    /\ Len(MemList(1)) = 1 /\ Len(DiskList(1)) = 1

\* C7: an event whose author is a bot leaves every buffer and file as it
\* was, so no buffer and no file ever holds a record of a bot's message.
C7_NoBotRecords ==
    \A c \in Channels :
        /\ \A i \in 1..Len(MemList(c)) : ~MsgAuthorBot(MemList(c)[i].message_id)
        /\ \A i \in 1..Len(DiskList(c)) : ~MsgAuthorBot(DiskList(c)[i].message_id)

Headers(msgs) == SelectSeq(msgs, LAMBDA x : x.kind = "header")

\* C10: a room-destroyed event emits at most one header, and for a room
\* that is not of the tracked type or does not pass the category filter
\* the handler ends without emitting anything.
C10_AtMostOneHeader ==
    [][/\ \A c \in Channels : sent'[c] = sent[c] \/ Len(Headers(sent'[c])) <= 1
       /\ \A c \in Channels, parent \in Parents :
             (/\ ~(TrackedType(c) /\ PassesFilter(ChannelGuild(c), parent))
              /\ DestroyStep(c, parent))
             => pc'[c] = "done" /\ sent'[c] = <<>>]_vars

\* a destination is set, room 1 holds a record and falls outside the
\* whitelist when it is destroyed: nothing is emitted
C10_Witness ==
    /\ outcome[1] = "ignored"
    /\ ConfOf(1).log_channel_id # 0
    /\ WhitelistOf(1) # <<>>
    /\ Len(DiskList(1)) = 1
    /\ sent[1] = <<>>

\* the step is a create, edit or delete event of message m whose room-file
\* write fails
FailedWriteStep(m, parent) ==
    \E name \in EventNames, t \in Instants, readOk \in BOOLEAN, w \in {"kept", "corrupt"} :
        \/ on_message(m, parent, name, "ok", readOk, w)
        \/ on_message_edit(m, parent, t, name, "ok", readOk, w)
        \/ on_message_delete(m, parent, t, name, "ok", readOk, w)

\* C11: when the write of an append fails, the capture handler still ends
\* with the record appended to the room's buffer, a load_channel_records
\* that follows (the file readable or not) holds the record's identity
\* tuple, and the write is not tried again: the file is as the failed write
\* left it, without the record.
C11_FailedWriteKeepsRecordInMemory ==
    [][\A m \in Messages, parent \in Parents :
          (events' # events /\ faults' # faults /\ FailedWriteStep(m, parent))
          => LET c == MsgChannel(m) IN
             /\ c \in DOMAIN vc_text_buffer'
             /\ Len(vc_text_buffer'[c]) = Len(MemList(c)) + 1
             /\ SubSeq(vc_text_buffer'[c], 1, Len(MemList(c))) = MemList(c)
             /\ vc_text_buffer'[c][Len(vc_text_buffer'[c])].message_id = m
             /\ \A readOk \in BOOLEAN :
                   \E i \in 1..Len(load_channel_records(vc_text_buffer', disk', c, readOk)) :
                       IdentityTuple(load_channel_records(vc_text_buffer', disk', c, readOk)[i])
                          = IdentityTuple(vc_text_buffer'[c][Len(vc_text_buffer'[c])])
             /\ disk'[c] = disk[c] \/ disk'[c].st = "corrupt"]_vars

\* the one write made so far failed: the record is in the buffer, no file
\* was created, and the merged log holds the record
C11_Witness ==
    /\ faults = 1 /\ events = 1 /\ ~restarted
    /\ Len(MemList(1)) = 1
    /\ disk[1].st = "absent"
    /\ load_channel_records(vc_text_buffer, disk, 1, TRUE) = MemList(1)

\* C12: for every record list L (here: a stored file followed by a buffer),
\* dedup(dedup(L)) = dedup(L) and dedup(L followed by L) = dedup(L); so
\* the dedup inside send_chunked_logs leaves the merged and capped list as
\* it is, and a room whose file equals its buffer merges to that content
\* with every identity tuple once.
C12_DedupIdempotent ==
    \A c \in Channels :
        LET L == DiskList(c) \o MemList(c) IN
        /\ dedup(dedup(L)) = dedup(L)
        /\ dedup(L \o L) = dedup(L)
        /\ pc[c] \in {"header", "notice", "chunk"}
              => all_records[c] = KeepLast(loaded[c].records,
                                           ConfOf(ChannelGuild(c)).max_messages_per_channel)
        /\ DiskList(c) = MemList(c)
              => load_channel_records(vc_text_buffer, disk, c, TRUE) = FirstWins(MemList(c))

\* the file and the buffer hold the same two records, and the list about
\* to be rendered (after the second dedup) holds each once
C12_Witness ==
    /\ DiskList(1) = <<EditRecord(1, 11, "x"), DeleteRecord(1, 11, "x")>>
    /\ MemList(1) = DiskList(1)
    /\ pc[1] = "header"
    /\ all_records[1] = DiskList(1)

\* the step runs the finally block of on_guild_channel_delete for room c
PurgeStep(c) == pc[c] # "done" /\ pc'[c] = "done" /\ outcome'[c] # "ignored"

SliceSize(f, L) == SliceTo(f, L) - SliceFrom(f, L)

\* C14: every attachment send_chunked_logs emits holds at least one byte
\* and at most 7,500,000 bytes, and when it returns normally for a
\* transcript of L > 0 bytes it has emitted ceil(L / 7,500,000) attachments.
C14_AttachmentSizesAndCount ==
    [][\A c \in Channels :
          (pc[c] = "chunk" /\ sent'[c] # sent[c])
          => LET L == RawLen(all_records[c])
                 f == sent'[c][Len(sent'[c])]
             IN
             /\ L > 0
             /\ f.kind = "file"
             /\ 0 < SliceSize(f, L) /\ SliceSize(f, L) <= 7500000
             /\ pc'[c] = "done" =>
                   \E n \in 1..Len(sent'[c]) :
                      /\ Len(Files(sent'[c])) = n
                      /\ (n - 1) * 7500000 < L /\ L <= n * 7500000]_vars

\* a transcript of exactly 7,500,000 bytes has been sent in one attachment
C14_Witness ==
    \E c \in Channels :
        /\ pc[c] = "done" /\ outcome[c] = "sent"
        /\ Len(Files(sent[c])) = 1
        /\ Files(sent[c])[1].hi - Files(sent[c])[1].lo = 7500000

\* msgs is parts 1..Len(msgs) of one split into total attachments
PartsInOrder(msgs, total) ==
    /\ Len(msgs) <= total
    /\ \A i \in 1..Len(msgs) : msgs[i].kind = "file" /\ msgs[i].part = i /\ msgs[i].of = total

\* msgs is one header followed by parts 1..n of n, n >= 1, and nothing else
HeaderThenAllParts(msgs) ==
    /\ Len(msgs) >= 2
    /\ msgs[1].kind = "header"
    /\ PartsInOrder(Tail(msgs), Len(msgs) - 1)

\* C15 as stated: an export whose destination resolved and whose sends all
\* succeeded has emitted one header, then one attachment per chunk in
\* increasing order, and nothing else.
C15_HeaderThenAttachmentsOnly ==
    \A c \in Channels :
        (pc[c] = "done" /\ outcome[c] = "sent") => HeaderThenAllParts(sent[c])

\* C15 (amended): whatever has been emitted starts with the one header;
\* after the header of a transcript with records come attachments part 1,
\* 2, ... of n in increasing order and nothing else, all n of them when
\* every send succeeded; after the header of a transcript without records
\* comes the text message "(no messages)" and no attachment.
C15_HeaderThenPartsOrNotice ==
    \A c \in Channels :
        sent[c] # <<>> =>
           LET h == sent[c][1]
               rest == Tail(sent[c])
               complete == pc[c] = "done" /\ outcome[c] = "sent"
           IN
           /\ h.kind = "header"
           /\ IF h.n = 0
              THEN /\ rest \in {<<>>, <<Notice>>}
                   /\ complete => rest = <<Notice>>
              ELSE /\ rest # <<>> => PartsInOrder(rest, rest[1].of)
                   /\ complete => HeaderThenAllParts(sent[c])
                   /\ rest # <<>> /\ Len(rest) = rest[1].of => complete

\* the room had no record: the header and the notice were sent, no attachment
C15_Witness ==
    /\ pc[1] = "done" /\ outcome[1] = "sent"
    /\ sent[1] = <<Header(<<>>), Notice>>

\* t, in seconds from a Monday 00:00:00 JST, is a Monday between 04:00:00
\* and 04:09:59
MondayFourToFourTen(t) ==
    LET inWeek == t % (7 * 24 * 3600) IN 4 * 3600 <= inWeek /\ inWeek < 4 * 3600 + 10 * 60

\* the snapshots the step has added
NewSnapshots == SubSeq(snapshots', Len(snapshots) + 1, Len(snapshots'))

FirstDue == next_iteration - ticks * Interval
\* the Monday 04:00:00 of week k
WindowOpens(k) == k * 7 * 24 * 3600 + 4 * 3600
\* the loop was running before the window of week k opened, and its next
\* iteration is due after the window has closed
WindowPassed(k) == FirstDue <= WindowOpens(k) /\ next_iteration >= WindowOpens(k) + 10 * 60

\* C17: once a weekly window has passed with the loop running throughout,
\* exactly one iteration has read a time inside it, and every guild has
\* exactly one scheduled snapshot stamped inside it.
C17_ExactlyOneTickPerWindow ==
    \A k \in 0..1 :
        WindowPassed(k) =>
            /\ fired = 1
            /\ \A g \in Guilds :
                  Cardinality({i \in 1..Len(snapshots) :
                                  /\ snapshots[i].guild = g
                                  /\ snapshots[i].stamp >= WindowOpens(k)
                                  /\ snapshots[i].stamp < WindowOpens(k) + 10 * 60}) = 1

\* the requested ids that are text channels of guild g the bot may read
Dumpable(g, ids, readable) ==
    {cid \in Elems(ids) : /\ cid \in Channels
                          /\ ChannelType(cid) = "text"
                          /\ ChannelGuild(cid) = g
                          /\ cid \in readable}

\* C18: every snapshot an iteration writes has its manifest, listing the
\* requested ids; message_counts has an entry for exactly the requested
\* ids that resolve to a text channel of the guild with read permission,
\* each with the number of messages of that channel in the seven days
\* before, whatever other ids were requested next to them.
C18_UnresolvedRoomsAreSkipped ==
    [][ticks' = ticks \/
       \A latency \in 0..MaxLatency, readable \in SUBSET TextChannels :
          weekly_backup_task(latency, readable, {}, {}) =>
             \A i \in 1..Len(NewSnapshots) :
                LET snap == NewSnapshots[i] IN
                /\ snap.message_channels = parse_id_list(backup_ids)
                /\ DOMAIN snap.message_counts =
                      Dumpable(snap.guild, snap.message_channels, readable)
                /\ \A cid \in DOMAIN snap.message_counts :
                      snap.message_counts[cid] =
                         Cardinality({m \in Messages :
                                         /\ MsgChannel(m) = cid
                                         /\ MsgCreatedAt(m) > snap.stamp - 7 * 24 * 3600})]_vars

\* of the requested ids 9 (no such channel), 1 (a voice channel) and 2,
\* guild 1's snapshot counts channel 2 only; guild 2's snapshot, for which
\* none of them resolves, has its manifest with no count
C18_Witness ==
    \E i, j \in 1..Len(snapshots) :
        /\ snapshots[i].guild = 1
        /\ snapshots[i].message_channels = <<9, 1, 2>>
        /\ snapshots[i].message_counts = (2 :> 1)
        /\ snapshots[j].guild = 2
        /\ snapshots[j].stamp = snapshots[i].stamp
        /\ DOMAIN snapshots[j].message_counts = {}

\* the retention caps in memory, those a first access would create, and
\* those stored in settings.json
Caps ==
    {ConfOf(g).max_messages_per_channel : g \in Guilds}
    \cup (IF settings_file.st = "ok"
          THEN {settings_file.data[g].max_messages_per_channel : g \in DOMAIN settings_file.data}
          ELSE {})

\* C19: every guild's retention cap is 5000 or a value in 100..200000,
\* hence positive, after any admin commands, failed saves and restarts;
\* set_max with a count outside 100..200000 leaves the configuration, in
\* memory and in settings.json, as it was.
C19_CapInRange ==
    /\ [](\A cap \in Caps : cap > 0 /\ (cap = 5000 \/ (100 <= cap /\ cap <= 200000)))
    /\ [][\A g \in Guilds, count \in Counts :
             (admin' # admin /\ (count < 100 \/ count > 200000) /\ set_max(g, count, "ok", "ok"))
             => UNCHANGED <<guild_settings, lists, settings_file>>]_vars

\* set_max has set guild 1's cap to the lower end of the range; guild 2
\* has no conf yet
C19_Witness ==
    /\ DOMAIN guild_settings = {1}
    /\ guild_settings[1].max_messages_per_channel = 100
    /\ settings_file.st = "ok"
    /\ settings_file.data[1].max_messages_per_channel = 100
    /\ admin = 2

\* the record sequence room c's file holds after the step
DiskListNext(c) == IF disk'[c].st = "ok" THEN disk'[c].data ELSE <<>>

\* C20: every step that captures an event for a room leaves the room's
\* file holding what it held before, followed by exactly one more record,
\* whatever reads and writes of the file fail.
C20_DiskOnlyGrows ==
    [][\A c \in Channels :
          (events' # events /\ captured'[c] # captured[c])
          => /\ Len(DiskListNext(c)) = Len(DiskList(c)) + 1
             /\ SubSeq(DiskListNext(c), 1, Len(DiskList(c))) = DiskList(c)]_vars

\* the records captured for room c before the last restart (all of them
\* written to the room's file), and those captured since
BeforeRestart(c) == SubSeq(captured[c], 1, Len(captured[c]) - Len(MemList(c)))
SinceRestart(c) == MemList(c)

\* the trailing records of seq, at most cap of them
Trailing(seq, cap) == SubSeq(seq, Len(seq) - Smaller(Len(seq), cap) + 1, Len(seq))

\* out is seq with every record removed whose identity tuple occurred earlier
IsFirstWinsOf(out, seq) ==
    LET P == FirstPositions(seq) IN
    /\ Len(out) = Cardinality(P)
    /\ \A i \in P : out[Cardinality({j \in P : j <= i})] = seq[i]

\* C21: when a room is destroyed after a restart, the file still holds the
\* records written before the restart, and the list the handler exports is
\* those records in order followed by the records captured since the
\* restart (a record whose identity tuple occurred earlier appearing
\* once), cut to the trailing records the retention cap allows.
C21_ExportAfterRestart ==
    [][\A c \in Channels :
          (restarted /\ pc[c] = "idle" /\ pc'[c] \in {"fetch", "header"})
          => LET whole == BeforeRestart(c) \o SinceRestart(c)
                 cap == ConfOf(ChannelGuild(c)).max_messages_per_channel
             IN
             /\ DiskList(c) = whole
             /\ IsFirstWinsOf(loaded'[c].records, whole)
             /\ all_records'[c] = Trailing(loaded'[c].records, cap)
             /\ Len(loaded'[c].records) = Len(whole) => all_records'[c] = Trailing(whole, cap)]_vars

\* 101 records were written before the restart and one was captured after
\* it; the export under way holds the last 99 of the former, then the latter
C21_Witness ==
    /\ restarted /\ pc[1] = "header"
    /\ Len(captured[1]) = RangeMin + 2
    /\ Len(MemList(1)) = 1
    /\ Len(all_records[1]) = RangeMin
    /\ all_records[1][1] = OldRecord(3)
    /\ all_records[1][RangeMin] = MemList(1)[1]

\* C22: for a room whose file is missing or cannot be decoded, and for a
\* read of the file that raises, load_channel_records returns the room's
\* buffer with later repeats of an identity tuple removed, and the empty
\* list when the room has no buffer.
C22_LoadWithoutFileIsBuffer ==
    \A c \in Channels, readOk \in BOOLEAN :
        (disk[c].st # "ok" \/ ~readOk) =>
            LET out == load_channel_records(vc_text_buffer, disk, c, readOk) IN
            /\ out = FirstWins(MemList(c))
            /\ c \notin DOMAIN vc_text_buffer => out = <<>>

\* room 1's file was left undecodable by a failed write; the buffer holds
\* the same edit twice and the load returns it once
C22_Witness ==
    /\ disk[1].st = "corrupt"
    /\ Len(MemList(1)) = 2
    /\ MemList(1)[1] = MemList(1)[2]
    /\ load_channel_records(vc_text_buffer, disk, 1, TRUE) = <<MemList(1)[1]>>

\* the summaries the step has added
NewSummaries == SubSeq(summaries', Len(summaries) + 1, Len(summaries'))

\* C23: in an iteration inside the window, whichever guilds' create_snapshot
\* or send_snapshot_summary raises, every guild whose create_snapshot does
\* not raise gets its snapshot, every guild for which neither raises gets
\* its summary too, and the iteration ends normally: the loop's next
\* iteration stays due.
C23_FailureOfOneGuildIsIsolated ==
    [][ticks' = ticks \/
       \A latency \in 0..MaxLatency, readable \in SUBSET TextChannels,
          failing \in SUBSET Guilds, unsent \in SUBSET Guilds :
          (MondayFourToFourTen(clock') /\ weekly_backup_task(latency, readable, failing, unsent))
          => /\ \A g \in Guilds \ failing :
                   Cardinality({i \in 1..Len(NewSnapshots) : NewSnapshots[i].guild = g}) = 1
             /\ \A g \in Guilds \ (failing \cup unsent) :
                   \E i \in 1..Len(NewSummaries) : NewSummaries[i] = <<g, clock'>>
             /\ ticks' = ticks + 1
             /\ next_iteration' = next_iteration + 600]_vars

\* guild 1's snapshot failed; guild 2, later in bot.guilds, has its
\* snapshot and its summary, and the loop goes on
C23_Witness ==
    /\ fired = 1 /\ ticks = 1
    /\ Len(snapshots) = 1 /\ snapshots[1].guild = 2
    /\ summaries = <<<<2, clock>>>>
    /\ next_iteration > clock

\* the directory a snapshot run writes: BACKUP_DIR/<guild id>/<stamp>
SnapshotDir(snap) == <<snap.guild, snap.stamp>>

\* C24: no two snapshot runs, scheduled or on demand, write the same
\* directory.
C24_DistinctRunsDistinctDirs ==
    \A i, j \in 1..Len(snapshots) :
        i # j => SnapshotDir(snapshots[i]) # SnapshotDir(snapshots[j])

Holds(seq, r) == \E i \in 1..Len(seq) : IdentityTuple(seq[i]) = IdentityTuple(r)

\* C26: when the handler of a room's destruction ends after sending the
\* whole transcript, every record captured for the room, those captured
\* while the handler was waiting for its sends included, is in the
\* transcript sent or is still in the room's buffer or file.
C26_NoRecordLostByInterleaving ==
    [][\A c \in Channels :
          (InFlight(c) /\ pc'[c] = "done" /\ outcome'[c] = "sent")
          => \A i \in 1..Len(captured[c]) :
                \/ Holds(all_records[c], captured[c][i])
                \/ c \in DOMAIN vc_text_buffer' /\ Holds(vc_text_buffer'[c], captured[c][i])
                \/ disk'[c].st = "ok" /\ Holds(disk'[c].data, captured[c][i])]_vars

\* destination, retention cap and whitelist of guild h as the handlers
\* see them, before and after the step
ConfView(h) ==
    <<ConfOf(h).log_channel_id, ConfOf(h).max_messages_per_channel, WhitelistOf(h)>>
ConfViewNext(h) ==
    LET conf == IF h \in DOMAIN guild_settings' THEN guild_settings'[h] ELSE DEFAULT_SETTINGS
    IN <<conf.log_channel_id, conf.max_messages_per_channel, lists'[conf.category_whitelist]>>

\* the step is one of the five configuring commands issued in guild g
AdminStepOn(g) ==
    \E s1 \in WriteOutcomes, s2 \in WriteOutcomes :
        \/ \E ch \in Channels : set_log_channel(g, ch, s1, s2)
        \/ \E count \in Counts : set_max(g, count, s1, s2)
        \/ \E cat \in Categories : add_category(g, cat, s1, s2)
        \/ \E cat \in Categories : remove_category(g, cat, s1, s2)
        \/ clear_categories(g, s1, s2)

\* C27: set_log_channel, set_max, add_category, remove_category and
\* clear_categories issued in one guild leave the destination, the
\* retention cap and the whitelist of every other guild as they were, also
\* when the other guild's conf is a copy of DEFAULT_SETTINGS or not yet
\* created.
C27_AdminChangesOneGuildOnly ==
    [][admin' = admin \/
       \A g \in Guilds :
          AdminStepOn(g) => \A h \in Guilds \ {g} : ConfViewNext(h) = ConfView(h)]_vars

\* guild 2's conf was created as a copy of DEFAULT_SETTINGS and still
\* refers to the default list; guild 1 has since added category 1
C27_Witness ==
    /\ DOMAIN guild_settings = {1, 2}
    /\ guild_settings[2].category_whitelist = DefaultListId
    /\ WhitelistOf(1) = <<1>>
    /\ WhitelistOf(2) = <<>>
    /\ admin = 2 /\ ~restarted
====
